---- MODULE Spec2Model ----
(***************************************************************************)
(* Conversion of a trained Keras model to an inference model, as done by   *)
(* microwakeword/utils.py: _set_mode, _get_input_output_states,            *)
(* _copy_weights, convert_to_inference_model and to_streaming_inference.   *)
(*                                                                         *)
(* A model is a record [kind, inputs, layers].  A layer is a record        *)
(*   [name, config, mode, training, unroll, layer, weights,                *)
(*    input_state, output_state]                                           *)
(* where config is the set of keys of get_config(), layer is <<>> or the   *)
(* one wrapped layer of a Wrapper, and weights is the list layer.weights   *)
(* (a Wrapper lists the weights of the layer it wraps).                    *)
(* A weight is [name, trainable, shape, vshape, value]: the variable's     *)
(* name (a sequence of characters), trainability flag and declared shape,  *)
(* and the shape and content of the array get_weights() returns for it.    *)
(***************************************************************************)
EXTENDS Integers, Sequences, FiniteSets

VARIABLES
    pc,             \* position of the running call
    entry,          \* the function the caller invoked
    mode,           \* the mode argument
    model,          \* the source model (old graph)
    new_model,      \* the cloned model (new graph), NoModel before it exists
    i,              \* the Python loop index i over the layers (0-based)
    k,              \* cursor of the last cursor scan of _copy_weights, -1 if none ran
    err,            \* the raised ValueError, NoError if none
    input_states,   \* input_states of _get_input_output_states
    output_states,  \* output_states of _get_input_output_states
    result,         \* the returned model, NoModel if none
    pre_model,      \* model as it was when the call started
    pre_new_model   \* new_model as it was when _copy_weights started

vars == <<pc, entry, mode, model, new_model, i, k, err, input_states,
          output_states, result, pre_model, pre_new_model>>

(***************************************************************************)
(* Bounds of the model.                                                    *)
(***************************************************************************)
MaxLayers == 2

MaxOldWeights == 2

MaxNewWeights == 3

MaxDepth == 1

(***************************************************************************)
(* Values shared by all operations.                                        *)
(***************************************************************************)
\* Python's None where a state tensor is expected
None == [owner |-> 0, side |-> "None", shape |-> <<>>]

TRAINING == "TRAINING"

NON_STREAM_INFERENCE == "NON_STREAM_INFERENCE"

STREAM_INTERNAL_STATE_INFERENCE == "STREAM_INTERNAL_STATE_INFERENCE"

STREAM_EXTERNAL_STATE_INFERENCE == "STREAM_EXTERNAL_STATE_INFERENCE"

Modes == {TRAINING, NON_STREAM_INFERENCE, STREAM_INTERNAL_STATE_INFERENCE,
          STREAM_EXTERNAL_STATE_INFERENCE}

Err(kind, a, b) == [kind |-> kind, a |-> a, b |-> b]

NoError == Err("none", 0, 0)

NoModel == [kind |-> "none", inputs |-> 0, layers |-> <<>>]

Max(S) == CHOOSE x \in S : \A y \in S : y <= x

SeqsUpTo(S, n) == UNION {[1..m -> S] : m \in 0..n}

(***************************************************************************)
(* Python string operations used by _same_weights.                         *)
(***************************************************************************)
\* str.rfind(ch): 0-based index of the last occurrence, -1 if there is none
rfind(s, ch) ==
    LET at == {p \in 1..Len(s) : s[p] = ch}
    IN  IF at = {} THEN -1 ELSE Max(at) - 1

\* s[start:None]: a negative start counts from the end
SliceFrom(s, start) ==
    LET n == Len(s)
        b == IF start < 0
             THEN (IF start + n < 0 THEN 0 ELSE start + n)
             ELSE (IF start > n THEN n ELSE start)
    IN  SubSeq(s, b + 1, n)

(***************************************************************************)
(* _copy_weights                                                           *)
(***************************************************************************)
_same_weights(weight, new_weight) ==
    /\ weight.trainable = new_weight.trainable
    /\ weight.shape = new_weight.shape
    /\ SliceFrom(weight.name, rfind(weight.name, "/"))
         = SliceFrom(new_weight.name, rfind(new_weight.name, "/"))

\* layer.get_weights(): the arrays held by layer.weights, in order
get_weights(layer) ==
    [t \in 1..Len(layer.weights) |->
        [shape |-> layer.weights[t].vshape, value |-> layer.weights[t].value]]

\* layer.set_weights(weights): all arrays are checked, then all are assigned
set_weights(layer, weights) ==
    IF Len(weights) # Len(layer.weights)
    THEN [err |-> Err("set_weights", Len(layer.weights), Len(weights)), layer |-> layer]
    ELSE IF \E t \in 1..Len(weights) : layer.weights[t].shape # weights[t].shape
    THEN [err |-> Err("set_weights", Len(layer.weights), Len(weights)), layer |-> layer]
    ELSE [err |-> NoError,
          layer |-> [layer EXCEPT !.weights =
                        [t \in 1..Len(weights) |->
                            [layer.weights[t] EXCEPT !.vshape = weights[t].shape,
                                                     !.value = weights[t].value]]]]

\* a scan whose cursor advances on every slot, matched or not
scan_always_advance(new_layer, layer, k_new, k0, new_weights) ==
    LET n == Len(get_weights(new_layer))
        m == Len(get_weights(layer))
        old_at(t) == k0 + (t - k_new) + 1
    IN  [err |-> NoError,
         k |-> IF k0 + (n - k_new + 1) > m THEN (IF k0 > m THEN k0 ELSE m)
               ELSE k0 + (n - k_new + 1),
         new_weights |-> new_weights \o
            [t \in 1..(n - k_new + 1) |->
                IF /\ old_at(k_new + t - 1) <= m
                   /\ _same_weights(layer.weights[old_at(k_new + t - 1)],
                                    new_layer.weights[k_new + t - 1])
                THEN get_weights(layer)[old_at(k_new + t - 1)]
                ELSE get_weights(new_layer)[k_new + t - 1]]]

\* a scan that expects every extra slot after the old weights: once a slot
\* differs, the remaining slots keep their own values
scan_states_last(new_layer, layer, k_new, k0, new_weights) ==
    LET n == Len(get_weights(new_layer))
        m == Len(get_weights(layer))
        same(t) == /\ k0 + (t - k_new) < m
                   /\ _same_weights(layer.weights[k0 + (t - k_new) + 1],
                                    new_layer.weights[t])
        stop == IF \E t \in k_new..n : ~same(t)
                THEN CHOOSE t \in k_new..n : ~same(t) /\ \A u \in k_new..(t - 1) : same(u)
                ELSE n + 1
    IN  [err |-> NoError, k |-> k0 + (stop - k_new),
         new_weights |-> new_weights \o
            [t \in 1..(n - k_new + 1) |->
                IF k_new + t - 1 < stop
                THEN get_weights(layer)[k0 + t]
                ELSE get_weights(new_layer)[k_new + t - 1]]]

\* the loop over k_new; k_new is the 1-based index of the next new weight,
\* k the number of old weights consumed so far
RECURSIVE scan_new_weights(_, _, _, _, _)
scan_new_weights(new_layer, layer, k_new, k0, new_weights) ==
    IF k_new > Len(get_weights(new_layer))
    THEN [err |-> NoError, k |-> k0, new_weights |-> new_weights]
    ELSE LET new_weight == new_layer.weights[k_new]
             new_weight_values == get_weights(new_layer)[k_new]
         IN  IF k0 < Len(get_weights(layer))
             THEN LET weight == layer.weights[k0 + 1]
                      weight_values == get_weights(layer)[k0 + 1]
                  IN  IF \/ weight.shape # weight_values.shape
                         \/ new_weight.shape # new_weight_values.shape
                      THEN [err |-> Err("not_in_order", 0, 0), k |-> k0,
                            new_weights |-> new_weights]
                      ELSE IF _same_weights(weight, new_weight)
                      THEN scan_new_weights(new_layer, layer, k_new + 1, k0 + 1,
                                            Append(new_weights, weight_values))
                      ELSE scan_new_weights(new_layer, layer, k_new + 1, k0,
                                            Append(new_weights, new_weight_values))
             ELSE scan_new_weights(new_layer, layer, k_new + 1, k0,
                                   Append(new_weights, new_weight_values))

\* a general path without the check that every old weight was consumed
cursor_copy_unchecked(new_layer, layer) ==
    LET s == scan_new_weights(new_layer, layer, 1, 0, <<>>)
    IN  IF s.err.kind # "none"
        THEN [err |-> s.err, layer |-> new_layer, k |-> s.k]
        ELSE LET r == set_weights(new_layer, s.new_weights)
             IN  [err |-> r.err, layer |-> r.layer, k |-> s.k]

\* a general path that assigns the scanned list before checking the cursor
cursor_copy_assign_first(new_layer, layer) ==
    LET s == scan_new_weights(new_layer, layer, 1, 0, <<>>)
    IN  IF s.err.kind # "none"
        THEN [err |-> s.err, layer |-> new_layer, k |-> s.k]
        ELSE LET r == set_weights(new_layer, s.new_weights)
             IN  IF s.k # Len(get_weights(layer))
                 THEN [err |-> Err("not_all_copied", Len(get_weights(layer)), s.k),
                       layer |-> r.layer, k |-> s.k]
                 ELSE [err |-> r.err, layer |-> r.layer, k |-> s.k]

\* the general path: scan, check that every old weight was consumed, assign
cursor_copy(new_layer, layer) ==
    LET s == scan_new_weights(new_layer, layer, 1, 0, <<>>)
    IN  IF s.err.kind # "none"
        THEN [err |-> s.err, layer |-> new_layer, k |-> s.k]
        ELSE IF s.k # Len(get_weights(layer))
        THEN [err |-> Err("not_all_copied", Len(get_weights(layer)), s.k),
              layer |-> new_layer, k |-> s.k]
        ELSE LET r == set_weights(new_layer, s.new_weights)
             IN  [err |-> r.err, layer |-> r.layer, k |-> s.k]

\* a direct path that leaves the new layer as it is
direct_copy_skipped(new_layer, layer) ==
    [err |-> NoError, layer |-> new_layer, k |-> -1]

\* the direct path: set the old arrays in order
direct_copy(new_layer, layer) ==
    LET r == set_weights(new_layer, get_weights(layer))
    IN  [err |-> r.err, layer |-> r.layer, k |-> -1]

\* one iteration of the loop over the layers
copy_layer(new_layer, layer) ==
    IF Len(get_weights(layer)) = Len(get_weights(new_layer))
    THEN direct_copy(new_layer, layer)
    ELSE IF Len(layer.weights) > 0
    THEN cursor_copy(new_layer, layer)
    ELSE [err |-> NoError, layer |-> new_layer, k |-> -1]

\* a count check that only notices a new model with fewer layers
layer_counts_differ_short_only(new, old) ==
    Len(new.layers) < Len(old.layers)

\* the layer count check
layer_counts_differ(new, old) ==
    Len(new.layers) # Len(old.layers)

\* entry of _copy_weights: raise if the layer counts differ
CopyWeightsEnter ==
    /\ pc = "copy_weights"
    /\ pre_new_model' = new_model
    /\ IF layer_counts_differ(new_model, model)
       THEN /\ err' = Err("layers", Len(new_model.layers), Len(model.layers))
            /\ pc' = "raised"
            /\ i' = i
       ELSE /\ err' = err
            /\ pc' = "copy_loop"
            /\ i' = 0
    /\ UNCHANGED <<entry, mode, model, new_model, k, input_states, output_states,
                   result, pre_model>>

\* the body of the loop for layer i
CopyLayer ==
    /\ pc = "copy_loop"
    /\ i < Len(model.layers)
    /\ LET r == copy_layer(new_model.layers[i + 1], model.layers[i + 1])
       IN  /\ new_model' = [new_model EXCEPT !.layers[i + 1] = r.layer]
           /\ k' = IF r.k = -1 THEN k ELSE r.k
           /\ IF r.err.kind # "none"
              THEN /\ err' = r.err
                   /\ pc' = "raised"
                   /\ i' = i
              ELSE /\ err' = err
                   /\ pc' = pc
                   /\ i' = i + 1
    /\ UNCHANGED <<entry, mode, model, input_states, output_states, result,
                   pre_model, pre_new_model>>

\* return new_model
CopyWeightsReturn ==
    /\ pc = "copy_loop"
    /\ i >= Len(model.layers)
    /\ result' = new_model
    /\ pc' = "returned"
    /\ UNCHANGED <<entry, mode, model, new_model, i, k, err, input_states,
                   output_states, pre_model, pre_new_model>>

NextCopy == CopyWeightsEnter \/ CopyLayer \/ CopyWeightsReturn

(***************************************************************************)
(* Inputs of _copy_weights.  Names are written as character sequences:     *)
(* "d/k" is a kernel, "s/d/k" the same kernel under the "streaming" scope, *)
(* "k" and "bk" are names without a separator.  BadKernel and BadStates    *)
(* declare a shape their array does not have, which the sanity check of    *)
(* the cursor scan looks for.                                              *)
(***************************************************************************)
Weight(name, trainable, shape, vshape) ==
    [name |-> name, trainable |-> trainable, shape |-> shape, vshape |-> vshape,
     value |-> 0]

NameKernel == <<"d", "/", "k">>

NameBias == <<"d", "/", "b">>

NameScopedKernel == <<"s", "/", "d", "/", "k">>

NameScopedBias == <<"s", "/", "d", "/", "b">>

NameStates == <<"s", "/", "d", "/", "s">>

NameBare == <<"b", "k">>

NameBareOld == <<"k">>

Kernel == Weight(NameKernel, TRUE, 1, 1)

Bias == Weight(NameBias, TRUE, 2, 2)

BadKernel == Weight(NameKernel, TRUE, 1, 2)

BareOldKernel == Weight(NameBareOld, TRUE, 1, 1)

NewKernel == Weight(NameScopedKernel, TRUE, 1, 1)

NewBias == Weight(NameScopedBias, TRUE, 2, 2)

NewStates == Weight(NameStates, FALSE, 1, 1)

FrozenKernel == Weight(NameScopedKernel, FALSE, 1, 1)

WideKernel == Weight(NameScopedKernel, TRUE, 2, 2)

BareKernel == Weight(NameBare, TRUE, 1, 1)

BadStates == Weight(NameStates, FALSE, 1, 2)

OldWeightKinds == {Kernel, Bias, BadKernel, BareOldKernel}

NewWeightKinds == {NewKernel, NewBias, NewStates, FrozenKernel, WideKernel,
                   BareKernel, BadStates}

\* a layer that owns the given weights; slot t holds the value base + t
PlainLayer(n, weights, base) ==
    [name |-> n, config |-> {}, mode |-> TRAINING, training |-> FALSE,
     unroll |-> FALSE, layer |-> <<>>,
     weights |-> [t \in 1..Len(weights) |-> [weights[t] EXCEPT !.value = base + t]],
     input_state |-> <<>>, output_state |-> <<>>]

Graph(layers) == [kind |-> "functional", inputs |-> 1, layers |-> layers]

OldGraph(ws) == Graph([j \in 1..Len(ws) |-> PlainLayer(j, ws[j], 10 * j)])

NewGraph(ws) == Graph([j \in 1..Len(ws) |-> PlainLayer(j, ws[j], 100 + 10 * j)])

InitCall(p, e, m, old, new) ==
    /\ pc = p
    /\ entry = e
    /\ mode = m
    /\ model = old
    /\ new_model = new
    /\ i = 0
    /\ k = -1
    /\ err = NoError
    /\ input_states = <<>>
    /\ output_states = <<>>
    /\ result = NoModel
    /\ pre_model = old
    /\ pre_new_model = new

\* one layer pair, every combination of weights
InitCopyLayer ==
    \E old \in SeqsUpTo(OldWeightKinds, MaxOldWeights),
       new \in SeqsUpTo(NewWeightKinds, MaxNewWeights) :
        InitCall("copy_weights", "_copy_weights", STREAM_INTERNAL_STATE_INFERENCE,
                 OldGraph(<<old>>), NewGraph(<<new>>))

SpecCopyLayer == InitCopyLayer /\ [][NextCopy]_vars

\* whole graphs: any number of layers on each side, each layer of a listed shape
OldLayerKinds == {<<>>, <<Kernel>>, <<Kernel, Bias>>, <<BadKernel>>}

NewLayerKinds == {<<>>, <<NewKernel>>, <<NewKernel, NewBias>>, <<NewStates, NewKernel>>,
                  <<NewStates, NewKernel, NewBias, NewStates>>, <<FrozenKernel>>,
                  <<BareKernel, WideKernel>>}

InitCopy ==
    \E old \in SeqsUpTo(OldLayerKinds, MaxLayers),
       new \in SeqsUpTo(NewLayerKinds, MaxLayers) :
        InitCall("copy_weights", "_copy_weights", STREAM_INTERNAL_STATE_INFERENCE,
                 OldGraph(old), NewGraph(new))

SpecCopy == InitCopy /\ [][NextCopy]_vars

(***************************************************************************)
(* _set_mode                                                               *)
(***************************************************************************)
\* mode propagation that treats training and unroll only on mode-aware layers
RECURSIVE set_layer_mode_nested(_, _)
set_layer_mode_nested(layer, m) ==
    LET l1 == IF Len(layer.layer) = 1
              THEN [layer EXCEPT !.layer = <<set_layer_mode_nested(layer.layer[1], m)>>]
              ELSE layer
        config == l1.config
    IN  IF "mode" \in config
        THEN [l1 EXCEPT !.mode = m,
                        !.training = IF "training" \in config THEN FALSE ELSE @,
                        !.unroll = IF m = NON_STREAM_INFERENCE /\ "unroll" \in config
                                   THEN TRUE ELSE @]
        ELSE l1

RECURSIVE _recursive_set_layer_mode(_, _)
_recursive_set_layer_mode(layer, m) ==
    LET l1 == IF Len(layer.layer) = 1
              THEN [layer EXCEPT !.layer = <<_recursive_set_layer_mode(layer.layer[1], m)>>]
              ELSE layer
        config == l1.config
        l2 == IF "mode" \in config THEN [l1 EXCEPT !.mode = m] ELSE l1
        l3 == IF "training" \in config THEN [l2 EXCEPT !.training = FALSE] ELSE l2
        l4 == IF m = NON_STREAM_INFERENCE /\ "unroll" \in config
              THEN [l3 EXCEPT !.unroll = TRUE]
              ELSE l3
    IN  l4

\* one iteration of the loop of _set_mode: the layer is changed in place
SetModeLayer ==
    /\ pc = "set_mode"
    /\ i < Len(model.layers)
    /\ model' = [model EXCEPT !.layers[i + 1] =
                    _recursive_set_layer_mode(model.layers[i + 1], mode)]
    /\ i' = i + 1
    /\ UNCHANGED <<pc, entry, mode, new_model, k, err, input_states, output_states,
                   result, pre_model, pre_new_model>>

\* return model; inside convert_to_inference_model the clone follows
SetModeReturn ==
    /\ pc = "set_mode"
    /\ i >= Len(model.layers)
    /\ IF entry = "_set_mode"
       THEN pc' = "returned" /\ result' = model
       ELSE pc' = "clone" /\ result' = result
    /\ UNCHANGED <<entry, mode, model, new_model, i, k, err, input_states,
                   output_states, pre_model, pre_new_model>>

NextSetMode == SetModeLayer \/ SetModeReturn

(***************************************************************************)
(* _get_input_output_states                                                *)
(***************************************************************************)
\* an absence test that only knows the empty list
is_absent_empty_only(state) == state = <<>>

\* state in ([], [None])
is_absent(state) == state = <<>> \/ state = <<None>>

\* the loop body: the two lists after looking at one layer
states_with_layer(layer, ins, outs) ==
    IF "mode" \in layer.config
    THEN [ins |-> IF ~is_absent(layer.input_state)
                  THEN Append(ins, layer.input_state) ELSE ins,
          outs |-> IF ~is_absent(layer.output_state)
                   THEN Append(outs, layer.output_state) ELSE outs]
    ELSE [ins |-> ins, outs |-> outs]

\* the graph _get_input_output_states reads: new_model inside a conversion
StatesGraph == IF entry = "_get_input_output_states" THEN model ELSE new_model

StatesLayer ==
    /\ pc = "get_states"
    /\ i < Len(StatesGraph.layers)
    /\ LET r == states_with_layer(StatesGraph.layers[i + 1], input_states, output_states)
       IN  /\ input_states' = r.ins
           /\ output_states' = r.outs
    /\ i' = i + 1
    /\ UNCHANGED <<pc, entry, mode, model, new_model, k, err, result, pre_model,
                   pre_new_model>>

\* return input_states, output_states; inside a conversion the graph is closed next
StatesReturn ==
    /\ pc = "get_states"
    /\ i >= Len(StatesGraph.layers)
    /\ pc' = IF entry = "_get_input_output_states" THEN "returned" ELSE "build_external"
    /\ UNCHANGED <<entry, mode, model, new_model, i, k, err, input_states,
                   output_states, result, pre_model, pre_new_model>>

NextStates == StatesLayer \/ StatesReturn

(***************************************************************************)
(* convert_to_inference_model and to_streaming_inference                   *)
(***************************************************************************)
\* some layer of the nest declares a mode key
RECURSIVE IsStreamAware(_)
IsStreamAware(layer) ==
    \/ "mode" \in layer.config
    \/ Len(layer.layer) = 1 /\ IsStreamAware(layer.layer[1])

\* the layer re-created from its configuration under the "streaming" name
\* scope: fresh weight values, one non-trainable state weight after the
\* original weights when the layer keeps its state internally, and declared
\* state tensors when the state is external
RECURSIVE clone_layer(_)
clone_layer(layer) ==
    LET own == [t \in 1..Len(layer.weights) |->
                   [layer.weights[t] EXCEPT !.name = <<"s", "/">> \o @,
                                            !.vshape = layer.weights[t].shape,
                                            !.value = 100 + t]]
        internal == IsStreamAware(layer) /\ layer.mode = STREAM_INTERNAL_STATE_INFERENCE
        external == "mode" \in layer.config /\ layer.mode = STREAM_EXTERNAL_STATE_INFERENCE
    IN  [layer EXCEPT
            !.weights = IF internal
                        THEN Append(own, [NewStates EXCEPT !.value = 100 + Len(own) + 1])
                        ELSE own,
            !.layer = IF Len(layer.layer) = 1 THEN <<clone_layer(layer.layer[1])>> ELSE <<>>,
            !.input_state = IF external
                            THEN <<[owner |-> layer.name, side |-> "in", shape |-> <<1, 16>>]>>
                            ELSE <<>>,
            !.output_state = IF external
                             THEN <<[owner |-> layer.name, side |-> "out", shape |-> <<1, 16>>]>>
                             ELSE <<>>]

\* tf.keras.models.clone_model(model, input_tensors)
clone_model(old, n_input_tensors) ==
    [kind |-> "functional", inputs |-> n_input_tensors,
     layers |-> [j \in 1..Len(old.layers) |-> clone_layer(old.layers[j])]]

\* model.get_weights(): the arrays of all layers, layer by layer
RECURSIVE model_get_weights(_)
model_get_weights(layers) ==
    IF layers = <<>> THEN <<>>
    ELSE get_weights(Head(layers)) \o model_get_weights(Tail(layers))

RECURSIVE WeightsBefore(_, _)
WeightsBefore(layers, j) ==
    IF j <= 1 THEN 0 ELSE WeightsBefore(layers, j - 1) + Len(layers[j - 1].weights)

\* model.set_weights(weights): positional over the weights of all layers; all
\* arrays are checked, then all are assigned
model_set_weights(new, weights) ==
    LET n == WeightsBefore(new.layers, Len(new.layers) + 1)
        clash == \E j \in 1..Len(new.layers) : \E t \in 1..Len(new.layers[j].weights) :
                    new.layers[j].weights[t].shape
                      # weights[WeightsBefore(new.layers, j) + t].shape
    IN  IF n # Len(weights) THEN [err |-> Err("set_weights", n, Len(weights)), model |-> new]
        ELSE IF clash THEN [err |-> Err("set_weights", n, Len(weights)), model |-> new]
        ELSE [err |-> NoError,
              model |-> [new EXCEPT !.layers =
                 [j \in 1..Len(new.layers) |->
                    [new.layers[j] EXCEPT !.weights =
                       [t \in 1..Len(new.layers[j].weights) |->
                          [new.layers[j].weights[t] EXCEPT
                             !.vshape = weights[WeightsBefore(new.layers, j) + t].shape,
                             !.value = weights[WeightsBefore(new.layers, j) + t].value]]]]]]

\* to_streaming_inference up to its call of convert_to_inference_model: the
\* input tensors are built, more than two declared inputs are refused.  The
\* input shape and dtype lookups before it read the arguments and change
\* nothing.
ToStreamingEnter ==
    /\ pc = "to_streaming"
    /\ IF model.inputs > 2
       THEN err' = Err("inputs", model.inputs, 2) /\ pc' = "raised"
       ELSE err' = err /\ pc' = "convert"
    /\ UNCHANGED <<entry, mode, model, new_model, i, k, input_states, output_states,
                   result, pre_model, pre_new_model>>

\* the argument checks of convert_to_inference_model
ConvertEnter ==
    /\ pc = "convert"
    /\ IF model.kind = "not_model"
       THEN err' = Err("not_model", 0, 0) /\ pc' = "raised"
       ELSE IF model.kind = "sequential"
       THEN err' = Err("sequential", 0, 0) /\ pc' = "raised"
       ELSE IF model.kind # "functional"
       THEN err' = Err("subclass", 0, 0) /\ pc' = "raised"
       ELSE err' = err /\ pc' = "set_mode"
    /\ i' = 0
    /\ UNCHANGED <<entry, mode, model, new_model, k, input_states, output_states,
                   result, pre_model, pre_new_model>>

\* the number of input tensors the caller built
InputTensors ==
    IF entry = "to_streaming_inference"
    THEN (IF model.inputs > 1 THEN 2 ELSE 1)
    ELSE model.inputs

\* new_model = clone_model(model, input_tensors)
Clone ==
    /\ pc = "clone"
    /\ new_model' = clone_model(model, InputTensors)
    /\ pc' = "dispatch"
    /\ UNCHANGED <<entry, mode, model, i, k, err, input_states, output_states,
                   result, pre_model, pre_new_model>>

\* the if/elif chain on mode
Dispatch ==
    /\ pc = "dispatch"
    /\ IF mode = STREAM_INTERNAL_STATE_INFERENCE
       THEN /\ pc' = "copy_weights"
            /\ UNCHANGED <<new_model, err, result>>
       ELSE IF mode = STREAM_EXTERNAL_STATE_INFERENCE
       THEN /\ pc' = "get_states"
            /\ UNCHANGED <<new_model, err, result>>
       ELSE IF mode = NON_STREAM_INFERENCE
       THEN LET r == model_set_weights(new_model, model_get_weights(model.layers))
            IN  IF r.err.kind = "none"
                THEN /\ new_model' = r.model
                     /\ result' = r.model
                     /\ pc' = "returned"
                     /\ err' = err
                ELSE /\ err' = r.err
                     /\ pc' = "raised"
                     /\ UNCHANGED <<new_model, result>>
       ELSE /\ err' = Err("mode", 0, 0)
            /\ pc' = "raised"
            /\ UNCHANGED <<new_model, result>>
    /\ i' = 0
    /\ UNCHANGED <<entry, mode, model, k, input_states, output_states, pre_model,
                   pre_new_model>>

\* the external-state graph: the states join the inputs and outputs, the
\* weights are set positionally
BuildExternal ==
    /\ pc = "build_external"
    /\ LET new_streaming_model ==
               [new_model EXCEPT !.inputs = new_model.inputs + Len(input_states)]
           r == model_set_weights(new_streaming_model, model_get_weights(model.layers))
       IN  IF r.err.kind = "none"
           THEN /\ new_model' = [r.model EXCEPT !.inputs = new_model.inputs]
                /\ result' = r.model
                /\ pc' = "returned"
                /\ err' = err
           ELSE /\ err' = r.err
                /\ pc' = "raised"
                /\ UNCHANGED <<new_model, result>>
    /\ UNCHANGED <<entry, mode, model, i, k, input_states, output_states, pre_model,
                   pre_new_model>>

NextConvert ==
    \/ ToStreamingEnter
    \/ ConvertEnter
    \/ SetModeLayer
    \/ SetModeReturn
    \/ Clone
    \/ Dispatch
    \/ CopyWeightsEnter
    \/ CopyLayer
    \/ CopyWeightsReturn
    \/ StatesLayer
    \/ StatesReturn
    \/ BuildExternal

(***************************************************************************)
(* Inputs of _set_mode and _get_input_output_states.                       *)
(***************************************************************************)
\* the weights a trained layer of the given configuration owns
TrainedWeights(config) ==
    LET ws == IF "mode" \in config THEN <<Kernel>>
              ELSE IF config = {} THEN <<Kernel, Bias>>
              ELSE <<>>
    IN  [t \in 1..Len(ws) |-> [ws[t] EXCEPT !.value = t]]

\* a trained layer: training mode, training behaviour on, not unrolled
TrainedLayer(config, inner) ==
    [name |-> 0, config |-> config, mode |-> TRAINING, training |-> TRUE,
     unroll |-> FALSE, layer |-> inner, weights |-> TrainedWeights(config),
     input_state |-> <<>>, output_state |-> <<>>]

LeafConfigs == {{}, {"mode"}, {"training", "unroll"}, {"mode", "training", "unroll"}}

WrapperConfigs == {{}, {"training"}}

\* layers with at most d wrappers around a leaf
RECURSIVE TrainedLayers(_)
TrainedLayers(d) ==
    IF d = 0
    THEN {TrainedLayer(c, <<>>) : c \in LeafConfigs}
    ELSE TrainedLayers(d - 1) \cup
         {[TrainedLayer(c, <<[inner EXCEPT !.weights = <<>>]>>)
              EXCEPT !.weights = inner.weights] :
             c \in WrapperConfigs, inner \in TrainedLayers(d - 1)}

Named(layers) == [j \in 1..Len(layers) |-> [layers[j] EXCEPT !.name = j]]

InitSetMode ==
    \E layers \in SeqsUpTo(TrainedLayers(MaxDepth), MaxLayers), m \in Modes :
        InitCall("set_mode", "_set_mode", m, Graph(Named(layers)), NoModel)

SpecSetMode == InitSetMode /\ [][NextSetMode]_vars

\* what the caller may pass: through to_streaming_inference an object that
\* has declared inputs, directly to convert_to_inference_model anything
InitConvert ==
    \E layers \in SeqsUpTo(TrainedLayers(MaxDepth), MaxLayers), m \in Modes,
       n \in 1..3, e \in {"to_streaming_inference", "convert_to_inference_model"},
       kind \in {"functional", "sequential", "subclass", "not_model"} :
        /\ e = "to_streaming_inference" => kind \in {"functional", "sequential"}
        /\ InitCall(IF e = "to_streaming_inference" THEN "to_streaming" ELSE "convert",
                    e, m, [kind |-> kind, inputs |-> n, layers |-> Named(layers)],
                    NoModel)

SpecConvert == InitConvert /\ [][NextConvert]_vars

\* a state tensor declared by a layer
StateTensor(side) == [owner |-> 0, side |-> side, shape |-> <<1, 16>>]

DeclaredStates(side) == {<<>>, <<None>>, <<StateTensor(side)>>}

StateLayers ==
    {[TrainedLayer(c, <<>>) EXCEPT !.mode = STREAM_EXTERNAL_STATE_INFERENCE,
                                   !.training = FALSE,
                                   !.input_state = ins, !.output_state = outs] :
        c \in {{}, {"mode"}}, ins \in DeclaredStates("in"), outs \in DeclaredStates("out")}

\* every declared tensor carries the position of the layer that owns it
Owned(layers) ==
    [j \in 1..Len(layers) |->
        [layers[j] EXCEPT
            !.name = j,
            !.input_state = [t \in 1..Len(@) |->
                                IF @[t] = None THEN None ELSE [@[t] EXCEPT !.owner = j]],
            !.output_state = [t \in 1..Len(@) |->
                                IF @[t] = None THEN None ELSE [@[t] EXCEPT !.owner = j]]]]

InitStates ==
    \E layers \in SeqsUpTo(StateLayers, MaxLayers) :
        InitCall("get_states", "_get_input_output_states",
                 STREAM_EXTERNAL_STATE_INFERENCE, Graph(Owned(layers)), NoModel)

SpecStates == InitStates /\ [][NextStates]_vars

(***************************************************************************)
(* Properties of _copy_weights on a layer pair.                            *)
(***************************************************************************)
OldLayer(j) == model.layers[j]

NewLayerBefore(j) == pre_new_model.layers[j]

\* the loop body has run for layer j (to its end, or to the raise)
Processed(j) ==
    /\ j \in 1..Len(model.layers)
    /\ j \in 1..Len(pre_new_model.layers)
    /\ \/ pc = "copy_loop" /\ i >= j
       \/ pc = "returned"
       \/ pc = "raised" /\ err.kind # "layers" /\ i + 1 >= j

\* the loop body raised for layer j
RaisedAt(j) == pc = "raised" /\ err.kind # "layers" /\ i + 1 = j

\* the layer the loop body ran for last
LastProcessed == IF pc = "raised" THEN i + 1 ELSE i

\* the old weights map, in order, to distinct new slots that are the same weight
Embeddable(layer, new_layer) ==
    \E f \in [1..Len(layer.weights) -> 1..Len(new_layer.weights)] :
        /\ \A s, t \in 1..Len(layer.weights) : s < t => f[s] < f[t]
        /\ \A t \in 1..Len(layer.weights) :
              _same_weights(layer.weights[t], new_layer.weights[f[t]])

\* every array has the shape its variable declares
ShapesConsistent(layer) ==
    \A t \in 1..Len(layer.weights) : layer.weights[t].shape = layer.weights[t].vshape

EqualCounts(j) == Len(OldLayer(j).weights) = Len(NewLayerBefore(j).weights)

\* C3 as amended: on a layer pair with equal weight counts, whenever the cursor
\* algorithm succeeds the direct copy succeeds and leaves the same new values;
\* when the cursor algorithm reports an error the direct copy raises exactly
\* when an old array's shape differs from the declared shape of the slot at
\* the same position, and otherwise assigns every old value positionally.
C3_DirectMatchesCursorOnSuccess ==
    \A j \in 1..Len(model.layers) :
        (Processed(j) /\ EqualCounts(j)) =>
            LET c == cursor_copy(NewLayerBefore(j), OldLayer(j))
                clash == \E t \in 1..Len(OldLayer(j).weights) :
                            OldLayer(j).weights[t].vshape # NewLayerBefore(j).weights[t].shape
            IN  /\ c.err.kind = "none" =>
                      ~RaisedAt(j) /\ new_model.layers[j] = c.layer
                /\ c.err.kind # "none" =>
                      /\ RaisedAt(j) <=> clash
                      /\ ~clash => \A t \in 1..Len(OldLayer(j).weights) :
                            new_model.layers[j].weights[t].value = OldLayer(j).weights[t].value

\* C3 as claimed: the direct copy gives the cursor algorithm's values when that
\* succeeds and raises whenever the cursor algorithm would report an error.
C3_DirectEquivalentToCursor ==
    \A j \in 1..Len(model.layers) :
        (Processed(j) /\ EqualCounts(j)) =>
            LET c == cursor_copy(NewLayerBefore(j), OldLayer(j))
            IN  /\ c.err.kind = "none" =>
                      ~RaisedAt(j) /\ new_model.layers[j] = c.layer
                /\ c.err.kind # "none" => RaisedAt(j)

\* an equal-count pair of two weights each, copied, on which the cursor succeeds
C3_Witness ==
    /\ Processed(1) /\ EqualCounts(1) /\ ~RaisedAt(1)
    /\ Len(OldLayer(1).weights) = 2
    /\ cursor_copy(NewLayerBefore(1), OldLayer(1)).err.kind = "none"
    /\ new_model.layers[1].weights[2].value = OldLayer(1).weights[2].value
    /\ NewLayerBefore(1).weights[2].value # OldLayer(1).weights[2].value

\* C8: on a layer pair with different weight counts whose old layer owns a
\* weight, a completed scan that leaves k below the old count raises the error
\* carrying the old count and k, and the layer's new weights are not assigned.
C8_UnconsumedWeightsRaise ==
    \A j \in 1..Len(model.layers) :
        LET s == scan_new_weights(NewLayerBefore(j), OldLayer(j), 1, 0, <<>>)
        IN  ( /\ Processed(j) /\ ~EqualCounts(j)
              /\ Len(OldLayer(j).weights) > 0
              /\ s.err.kind = "none"
              /\ s.k < Len(OldLayer(j).weights) )
            => /\ RaisedAt(j)
               /\ err = Err("not_all_copied", Len(OldLayer(j).weights), s.k)
               /\ k = s.k
               /\ new_model.layers[j] = NewLayerBefore(j)
               /\ result = NoModel

\* old has 2 weights and only 1 matched: the error reports 1 of 2
C8_Witness ==
    /\ RaisedAt(1) /\ ~EqualCounts(1)
    /\ err = Err("not_all_copied", 2, 1)
    /\ new_model.layers[1] = NewLayerBefore(1)

\* C10: when the new layer has more weights than the old one and the old
\* weights embed in order into same-weight slots, the scan never ends short:
\* no not_all_copied error, k reaches the old count unless the shape sanity
\* check stops the scan, and with consistent shapes nothing is raised.
C10_CursorComplete ==
    \A j \in 1..Len(model.layers) :
        ( /\ Processed(j)
          /\ Len(NewLayerBefore(j).weights) > Len(OldLayer(j).weights)
          /\ Embeddable(OldLayer(j), NewLayerBefore(j)) )
        => /\ ~(RaisedAt(j) /\ err.kind = "not_all_copied")
           /\ (Len(OldLayer(j).weights) > 0 /\ ~(RaisedAt(j) /\ err.kind = "not_in_order"))
                 => /\ scan_new_weights(NewLayerBefore(j), OldLayer(j), 1, 0, <<>>).k
                         = Len(OldLayer(j).weights)
                    /\ j = LastProcessed => k = Len(OldLayer(j).weights)
           /\ (ShapesConsistent(OldLayer(j)) /\ ShapesConsistent(NewLayerBefore(j)))
                 => ~RaisedAt(j)

\* two old weights found with an extra slot between them
C10_Witness ==
    /\ Processed(1) /\ ~RaisedAt(1)
    /\ Len(OldLayer(1).weights) = 2 /\ Len(NewLayerBefore(1).weights) = 3
    /\ k = 2
    /\ new_model.layers[1].weights[1].value = OldLayer(1).weights[1].value
    /\ new_model.layers[1].weights[2].value = NewLayerBefore(1).weights[2].value
    /\ new_model.layers[1].weights[3].value = OldLayer(1).weights[2].value

(***************************************************************************)
(* Properties of _copy_weights on whole graphs.                            *)
(***************************************************************************)
\* the slots of layer j that hold the value of old weight t
SlotsHolding(j, t) ==
    {s \in 1..Len(new_model.layers[j].weights) :
        /\ new_model.layers[j].weights[s].value = OldLayer(j).weights[t].value
        /\ new_model.layers[j].weights[s].vshape = OldLayer(j).weights[t].vshape}

\* every old value of layer j sits in exactly one new slot, a same-weight one,
\* the slots are in the old order, and every other slot is as before the call
CopiedOnceInOrder(j) ==
    /\ \A t \in 1..Len(OldLayer(j).weights) :
          /\ Cardinality(SlotsHolding(j, t)) = 1
          /\ \A s \in SlotsHolding(j, t) :
                _same_weights(OldLayer(j).weights[t], NewLayerBefore(j).weights[s])
    /\ \A t, u \in 1..Len(OldLayer(j).weights) :
          t < u => \A s \in SlotsHolding(j, t), r \in SlotsHolding(j, u) : s < r
    /\ \A s \in 1..Len(NewLayerBefore(j).weights) :
          (\A t \in 1..Len(OldLayer(j).weights) : s \notin SlotsHolding(j, t))
              => new_model.layers[j].weights[s] = NewLayerBefore(j).weights[s]
    /\ \A s \in 1..Len(NewLayerBefore(j).weights) :
          /\ new_model.layers[j].weights[s].name = NewLayerBefore(j).weights[s].name
          /\ new_model.layers[j].weights[s].shape = NewLayerBefore(j).weights[s].shape
          /\ new_model.layers[j].weights[s].trainable
                = NewLayerBefore(j).weights[s].trainable
    /\ Len(new_model.layers[j].weights) = Len(NewLayerBefore(j).weights)

\* C2: when _copy_weights returns, in every layer whose old weights embed in
\* order into same-weight new slots (structurally parallel), each old value has
\* been copied exactly once, in order, into a same-weight slot, and every slot
\* that received no old value holds the value it had before the call.
C2_EveryOldWeightCopiedOnce ==
    pc = "returned" =>
        /\ Len(model.layers) = Len(pre_new_model.layers)
        /\ result = new_model
        /\ model = pre_model
        /\ \A j \in 1..Len(model.layers) :
              Embeddable(OldLayer(j), NewLayerBefore(j)) => CopiedOnceInOrder(j)

\* old [kernel, bias] against new [state, kernel, bias, state]: slots 2 and 3
\* filled, slots 1 and 4 untouched, k = 2
C2_Witness ==
    /\ pc = "returned"
    /\ Len(model.layers) = 2
    /\ Len(OldLayer(2).weights) = 2 /\ Len(NewLayerBefore(2).weights) = 4
    /\ k = 2
    /\ new_model.layers[2].weights[1] = NewLayerBefore(2).weights[1]
    /\ new_model.layers[2].weights[2].value = OldLayer(2).weights[1].value
    /\ new_model.layers[2].weights[3].value = OldLayer(2).weights[2].value
    /\ new_model.layers[2].weights[4] = NewLayerBefore(2).weights[4]

\* C4 as amended: when the loop raises at layer i, no graph is returned, layer i
\* and every later layer of the new graph hold their values from before the
\* call, and every layer before i has already been assigned its copy.
C4_AbortKeepsFailingAndLaterLayers ==
    \A j \in 1..Len(model.layers) :
        RaisedAt(j) =>
            /\ result = NoModel
            /\ \A l \in j..Len(model.layers) : new_model.layers[l] = NewLayerBefore(l)
            /\ \A l \in 1..(j - 1) :
                  /\ copy_layer(NewLayerBefore(l), OldLayer(l)).err.kind = "none"
                  /\ new_model.layers[l] = copy_layer(NewLayerBefore(l), OldLayer(l)).layer

\* C4 as claimed: when reconciliation aborts at a layer with a sanity or an
\* unconsumed-weights error, no weight of any layer of the new graph has been
\* overwritten and no graph is returned.
C4_AbortLeavesNoPartialCopy ==
    (pc = "raised" /\ err.kind \in {"not_in_order", "not_all_copied"}) =>
        /\ new_model = pre_new_model
        /\ result = NoModel

\* layer 1 copied, layer 2 raised with old weights left over
C4_Witness ==
    /\ RaisedAt(2) /\ err.kind = "not_all_copied"
    /\ new_model.layers[1] # NewLayerBefore(1)
    /\ new_model.layers[1].weights[1].value = OldLayer(1).weights[1].value
    /\ new_model.layers[2] = NewLayerBefore(2)

\* C7: when the layer counts differ, _copy_weights raises the layer count
\* error and has assigned no weight of the new graph.
C7_LayerCountMismatchRaisesFirst ==
    (pc # "copy_weights" /\ Len(pre_new_model.layers) # Len(model.layers)) =>
        /\ pc = "raised"
        /\ err = Err("layers", Len(pre_new_model.layers), Len(model.layers))
        /\ new_model = pre_new_model
        /\ result = NoModel

\* a new graph with more layers than the old one, whose first layers could
\* have been copied
C7_Witness ==
    /\ pc = "raised" /\ err = Err("layers", 2, 1)
    /\ Len(OldLayer(1).weights) = 1
    /\ Len(NewLayerBefore(1).weights) = 1
    /\ new_model = pre_new_model

(***************************************************************************)
(* Properties of _set_mode.                                                *)
(***************************************************************************)
NestingOf(layer) ==
    IF Len(layer.layer) = 0 THEN 0
    ELSE IF Len(layer.layer[1].layer) = 0 THEN 1
    ELSE IF Len(layer.layer[1].layer[1].layer) = 0 THEN 2
    ELSE 3

\* the layer d wrappers inside
Inner(layer, d) ==
    IF d = 0 THEN layer
    ELSE IF d = 1 THEN layer.layer[1]
    ELSE IF d = 2 THEN layer.layer[1].layer[1]
    ELSE layer.layer[1].layer[1].layer[1]

\* C9 as amended: after propagation a layer without a mode key, at any nesting
\* depth, keeps its mode attribute; its training setting is forced off when its
\* configuration declares training, its unroll setting is forced on when the
\* target is non-streaming inference and its configuration declares unroll, and
\* only a layer that declares none of the three keys is left untouched.
C9_ModeLessLayerKeepsModeOnly ==
    pc = "returned" =>
        \A j \in 1..Len(model.layers) : \A d \in 0..NestingOf(pre_model.layers[j]) :
            LET before == Inner(pre_model.layers[j], d)
                after == Inner(model.layers[j], d)
            IN  "mode" \notin before.config =>
                    /\ after.mode = before.mode
                    /\ after.training =
                         (IF "training" \in before.config THEN FALSE ELSE before.training)
                    /\ after.unroll =
                         (IF mode = NON_STREAM_INFERENCE /\ "unroll" \in before.config
                          THEN TRUE ELSE before.unroll)
                    /\ after.config = before.config
                    /\ after.weights = before.weights

\* C9 as claimed: after propagation every layer without a mode key, at any
\* nesting depth, has the training and unroll settings it had before.
C9_ModeLessLayerUntouched ==
    pc = "returned" =>
        \A j \in 1..Len(model.layers) : \A d \in 0..NestingOf(pre_model.layers[j]) :
            LET before == Inner(pre_model.layers[j], d)
                after == Inner(model.layers[j], d)
            IN  "mode" \notin before.config =>
                    /\ after.training = before.training
                    /\ after.unroll = before.unroll

\* a wrapped layer without a mode key whose training and unroll were forced
C9_Witness ==
    /\ pc = "returned" /\ mode = NON_STREAM_INFERENCE
    /\ Len(model.layers) = 2
    /\ NestingOf(model.layers[2]) = 1
    /\ "mode" \notin Inner(model.layers[2], 1).config
    /\ "training" \in Inner(model.layers[2], 1).config
    /\ Inner(pre_model.layers[2], 1).training /\ ~Inner(model.layers[2], 1).training
    /\ ~Inner(pre_model.layers[2], 1).unroll /\ Inner(model.layers[2], 1).unroll
    /\ Inner(model.layers[2], 1).mode = TRAINING

(***************************************************************************)
(* Properties of _get_input_output_states.                                 *)
(***************************************************************************)
\* the layers whose state on one side is collected
Declaring(layers, side) ==
    {j \in 1..Len(layers) :
        /\ "mode" \in layers[j].config
        /\ LET st == IF side = "in" THEN layers[j].input_state ELSE layers[j].output_state
           IN  st # <<>> /\ st # <<None>>}

OwnersInOrder(states) ==
    \A a, b \in 1..Len(states) : a < b => states[a][1].owner < states[b][1].owner

\* C6 as amended: each returned sequence holds, in layer order, the state of
\* exactly the mode-aware layers that declare a state on that side, one entry
\* per such layer; the two sequences have the same length with entry j of both
\* from the same layer exactly when the layers declaring an input state are
\* the layers declaring an output state.  Equal lengths alone do not give the
\* pairing.
C6_StatesInLayerOrderPerSide ==
    pc = "returned" =>
        /\ OwnersInOrder(input_states)
        /\ OwnersInOrder(output_states)
        /\ {input_states[a][1].owner : a \in 1..Len(input_states)}
             = Declaring(model.layers, "in")
        /\ {output_states[a][1].owner : a \in 1..Len(output_states)}
             = Declaring(model.layers, "out")
        /\ Len(input_states) = Cardinality(Declaring(model.layers, "in"))
        /\ Len(output_states) = Cardinality(Declaring(model.layers, "out"))
        /\ \A a \in 1..Len(input_states) :
             input_states[a] = model.layers[input_states[a][1].owner].input_state
        /\ \A a \in 1..Len(output_states) :
             output_states[a] = model.layers[output_states[a][1].owner].output_state
        /\ Declaring(model.layers, "in") = Declaring(model.layers, "out") <=>
             /\ Len(input_states) = Len(output_states)
             /\ \A a \in 1..Len(input_states) :
                  input_states[a][1].owner = output_states[a][1].owner

\* C6 as claimed: the two sequences have the same length, entry j of both comes
\* from the same layer, and both are in layer order, whatever the layers declare.
C6_StatesPairedForEveryGraph ==
    pc = "returned" =>
        /\ Len(input_states) = Len(output_states)
        /\ \A a \in 1..Len(input_states) :
             input_states[a][1].owner = output_states[a][1].owner
        /\ OwnersInOrder(input_states)
        /\ OwnersInOrder(output_states)

\* two mode-aware layers, the first declaring an input state only and the
\* second an output state only: one state on each side, from different layers
C6_Witness ==
    /\ pc = "returned"
    /\ Len(model.layers) = 2
    /\ model.layers[1].input_state # <<None>> /\ Len(model.layers[1].input_state) = 1
    /\ model.layers[1].output_state = <<None>>
    /\ model.layers[2].input_state = <<None>>
    /\ model.layers[2].output_state # <<None>> /\ Len(model.layers[2].output_state) = 1
    /\ Len(input_states) = 1 /\ Len(output_states) = 1
    /\ input_states[1][1].owner = 1
    /\ output_states[1][1].owner = 2

(***************************************************************************)
(* Properties of a conversion call.                                        *)
(***************************************************************************)
\* C1: when a conversion call has returned or raised, every layer of the
\* source graph (wrapped layers included) has the mode, training and unroll
\* settings and the weight values it had before the call.
C1_SourceGraphUnchanged ==
    pc \in {"returned", "raised"} => model.layers = pre_model.layers

\* C5: when a conversion call raises an invalid-argument error (not a model,
\* Sequential, not a graph network, unsupported mode, more than two inputs), no
\* layer of the source graph has been changed and no new graph has been built.
C5_InvalidArgumentBeforeMutation ==
    (pc = "raised" /\ err.kind \in {"not_model", "sequential", "subclass", "mode", "inputs"})
        => /\ model.layers = pre_model.layers
           /\ new_model = NoModel

====
